---- MODULE Spec2Model ----
(***************************************************************************)
(* Model of the eleventy-html-tag-templates plugin.                        *)
(*                                                                         *)
(* Two drafts of the engine live in the repository and both are modelled,  *)
(* selected by the variable `draft`:                                       *)
(*   "index"  - src/src/index.ts   (TagTemplate class, no implicit         *)
(*              attribute forwarding, no duplicate check)                  *)
(*   "part1"  - src/unnamed/part_001 (add_template with duplicate check,   *)
(*              forward_html_attributes, stylesheet front-matter test)     *)
(*                                                                         *)
(* Representation.  A string that the code handles with split(" ") and     *)
(* join(" ") is kept as the sequence of its space-separated tokens (the    *)
(* result of split(" "): "" is <<"">>, "a b" is <<"a", "b">>), so that     *)
(* x.split(" ").concat(y).join(" ") is the concatenation x \o y.           *)
(* CSS text is a sequence of opaque chunks, "+=" is \o.                    *)
(* A node of a document or of a template body is a record                  *)
(*   [t, name, val, attrs, kids]                                           *)
(* with t = "el" (element), "text" (text, in val), and, in template        *)
(* bodies only, "content" ({{ content }}), "var" ({{ name }}) and "call"   *)
(* ({{ name() }} of a function the render context does not define).        *)
(* attrs is the ordered list of [k, v] pairs of an element; in a template  *)
(* body an entry with the key ForwardKey stands for {{ forward(keys) }}    *)
(* written among the attributes of the tag, v being the keys.              *)
(***************************************************************************)
EXTENDS Integers, Sequences, FiniteSets

VARIABLES
    draft,          \* which draft of the engine runs
    templates,      \* this.templates: ordered registry, Seq of [key, tpl]
    reg_call,       \* the registration call just made: file, registry before, outcome
    pc,             \* position of the transform callback
    input,          \* the caller's document (content argument)
    html_content,   \* local html_content of the fixpoint loop
    processed_tags, \* local Set processed_tags
    template_css,   \* local template_css of the fixpoint loop
    passes,         \* number of this.transform calls made for the document
    calls,          \* expansions made by the last this.transform call
    matched,        \* tags of the elements matched in the completed passes, in order
    pass_tags,      \* per completed pass, the set of the tags that matched in it
    history,        \* every expansion of the run so far, in order
    compiled,       \* every styleSheetPreprocessor call of the run so far, in order
    dom,            \* the tree `$` of the finalization
    result,         \* what the callback handed back
    err             \* the exception that left the callback, if any

vars == <<draft, templates, reg_call, pc, input, html_content, processed_tags,
          template_css, passes, calls, matched, pass_tags, history, compiled,
          dom, result, err>>

-----------------------------------------------------------------------------
(* Bounds *)

MaxTemplates == 2   \* registrations attempted before documents are transformed
MaxPasses == 8      \* passes a non-terminating expansion is followed for

-----------------------------------------------------------------------------
(* Values *)

Drafts == {"index", "part1"}

NoTag == "<no tag>"        \* front matter without `tag`
NoSheet == "<no sheet>"    \* front matter without `stylesheet`

El(n, a, k) == [t |-> "el", name |-> n, val |-> <<>>, attrs |-> a, kids |-> k]
Text(v) == [t |-> "text", name |-> "#text", val |-> v, attrs |-> <<>>, kids |-> <<>>]
ContentSlot == [t |-> "content", name |-> "content", val |-> <<>>, attrs |-> <<>>, kids |-> <<>>]
VarSlot(n) == [t |-> "var", name |-> n, val |-> <<>>, attrs |-> <<>>, kids |-> <<>>]
CallSlot(n) == [t |-> "call", name |-> n, val |-> <<>>, attrs |-> <<>>, kids |-> <<>>]
At(k, v) == [k |-> k, v |-> v]

ForwardKey == "{{forward}}"
Forward(keys) == At(ForwardKey, keys)

\* The arguments of forward(): "*", "!name" and "name".
AllKeys == [op |-> "*", key |-> "*"]
NotKey(k) == [op |-> "!", key |-> k]
Key(k) == [op |-> "", key |-> k]

\* Attribute lists seen as mappings.
HasAttr(attrs, k) == \E i \in 1..Len(attrs) : attrs[i].k = k
AttrVal(attrs, k) == attrs[CHOOSE i \in 1..Len(attrs) : attrs[i].k = k].v

\* Variant of SetAttr that keeps the value of a key that is already there.
SetAttr_keep_existing(attrs, k, v) ==
    IF HasAttr(attrs, k) THEN attrs ELSE Append(attrs, At(k, v))

\* attribs[k] = v on an ordered mapping: overwrite in place, else append.
SetAttr(attrs, k, v) ==
    IF HasAttr(attrs, k)
    THEN [i \in 1..Len(attrs) |-> IF attrs[i].k = k THEN At(k, v) ELSE attrs[i]]
    ELSE Append(attrs, At(k, v))

RECURSIVE Flatten(_)
Flatten(ss) == IF ss = <<>> THEN <<>> ELSE Head(ss) \o Flatten(Tail(ss))

-----------------------------------------------------------------------------
(* Template files: front matter (tag, stylesheet) and body *)

\* A file name is kept as the sequence of its parts between dots, a path as
\* the sequence of its segments between slashes.
Njk(name) == <<name, "njk">>
TemplateDirectory == <<"templates">>

Tpl(filename, tag, sheet, body) ==
    [filename |-> filename, tag |-> tag, stylesheet |-> sheet, body |-> body]

CardFile ==
    Tpl(Njk("card"), "card", "card.css",
        << El("div", <<At("class", <<"card">>)>>,
              <<VarSlot("title"), VarSlot("apple"), ContentSlot>>) >>)
AnchorFile ==
    Tpl(Njk("anchor"), "anchor", NoSheet,
        << El("a", <<At("href", <<"#">>), At("class", <<"a">>), At("id", <<"base">>)>>,
              <<ContentSlot>>) >>)
WrapFile ==
    Tpl(Njk("wrap"), "wrap", "wrap.css",
        << El("card", <<At("class", <<"w">>)>>, <<ContentSlot>>) >>)
PairFile ==
    Tpl(Njk("pair"), "pair", NoSheet,
        << El("div", <<At("class", <<"left">>)>>, <<>>),
           El("div", <<At("class", <<"right">>)>>, <<>>) >>)
Card2File ==
    Tpl(Njk("card2"), "card", "card2.css",
        << El("section", <<At("apple", <<"x">>), At("id", <<"s">>)>>,
              <<El("anchor", <<>>, <<>>)>>) >>)
LoopFile ==
    Tpl(Njk("loop"), "loop", NoSheet,
        << El("div", <<>>, <<El("loop", <<>>, <<>>)>>) >>)
NoteFile ==
    Tpl(Njk("anchor"), NoTag, NoSheet, << Text(<<"note">>) >>)

FwdFile ==
    Tpl(Njk("fwd"), "fwd", NoSheet,
        << El("card", <<Forward(<<AllKeys, NotKey("id")>>)>>, <<ContentSlot>>) >>)
BrokenFile ==
    Tpl(Njk("broken"), "broken", "broken.css",
        << El("div", <<>>, <<CallSlot("missing")>>) >>)
GhostFile ==
    Tpl(Njk("ghost"), "ghost", "ghost.css", << El("div", <<>>, <<ContentSlot>>) >>)

TemplateFiles ==
    {CardFile, AnchorFile, WrapFile, PairFile, Card2File, LoopFile, NoteFile,
     FwdFile, BrokenFile, GhostFile}

\* The table of the html-element-attributes package, for the names used here.
\* "section" has no entry of its own.
htmlElementAttributes(name) ==
    CASE name = "*" -> {"class", "id", "style", "title", "hidden", "lang"}
      [] name = "a" -> {"href", "target", "rel", "download"}
      [] name = "div" -> {"align"}
      [] OTHER -> {}

HasElementEntry(name) == name \in {"*", "a", "div"}

-----------------------------------------------------------------------------
(* The registry *)

Keys(reg) == {reg[i].key : i \in 1..Len(reg)}
Lookup(reg, k) == reg[CHOOSE i \in 1..Len(reg) : reg[i].key = k].tpl

\* this.templates[k] = tpl on an object: an existing key keeps its position.
Assign(reg, k, tpl) ==
    IF k \in Keys(reg)
    THEN [i \in 1..Len(reg) |-> IF reg[i].key = k THEN [key |-> k, tpl |-> tpl] ELSE reg[i]]
    ELSE Append(reg, [key |-> k, tpl |-> tpl])

\* add_template(template, default_tag_name) of part_001: [reg, err].
add_template(reg, tpl, default_tag_name) ==
    IF tpl.tag # NoTag
    THEN IF tpl.tag \in Keys(reg)
         THEN [reg |-> reg, err |-> "DuplicateTag"]
         ELSE [reg |-> Assign(reg, tpl.tag, tpl), err |-> "none"]
    ELSE IF default_tag_name \in Keys(reg)
         THEN [reg |-> reg, err |-> "DuplicateTag"]
         ELSE [reg |-> Assign(reg, default_tag_name, tpl), err |-> "none"]

\* array[index] of JavaScript: undefined outside 0 .. length - 1.
ArrayAt(array, index) ==
    IF index \in 0..(Len(array) - 1)
    THEN [defined |-> TRUE, value |-> array[index + 1]]
    ELSE [defined |-> FALSE, value |-> <<>>]

\* join(template_directory, filename), split at "/".
full_path(tpl) == <<TemplateDirectory, tpl.filename>>

\* filename.split(".")[0] of process_template_directory in part_001.
file_stem(filename) == ArrayAt(filename, 0).value

\* new TagTemplate(path) of index.ts: the tag name.  Without `tag` in the
\* front matter it is template_filepath.split("/")[-1].split(".")[0], and
\* .split of undefined is a TypeError.
TagTemplate(tpl) ==
    IF tpl.tag = NoTag
    THEN LET last == ArrayAt(full_path(tpl), -1)
         IN  IF last.defined
             THEN [tag_name |-> ArrayAt(last.value, 0).value, err |-> "none"]
             ELSE [tag_name |-> NoTag, err |-> "TypeError"]
    ELSE [tag_name |-> tpl.tag, err |-> "none"]

\* One file of process_template_directory in index.ts: [reg, err].
register_file(reg, tpl) ==
    LET t == TagTemplate(tpl)
    IN  IF t.err # "none"
        THEN [reg |-> reg, err |-> t.err]
        ELSE [reg |-> Assign(reg, t.tag_name, tpl), err |-> "none"]

\* stylesheet(): "" when the front matter names none (index.ts).
stylesheet(tpl) == IF tpl.stylesheet = NoSheet THEN "" ELSE tpl.stylesheet

\* config.styleSheetPreprocessor(path): opaque text, one chunk per path.
styleSheetPreprocessor(path) == <<path>>

\* The stylesheets the preprocessor cannot read: its call throws.
MissingSheets == {"ghost.css"}

preprocessor_throws(path) == path \in MissingSheets

-----------------------------------------------------------------------------
(* Rendering *)

\* A JavaScript Set kept as the sequence of its members in insertion order.
SetAdd(set, x) == IF \E i \in 1..Len(set) : set[i] = x THEN set ELSE Append(set, x)
SetDelete(set, x) == SelectSeq(set, LAMBDA y : y # x)

RECURSIVE SetAddAll(_, _)
SetAddAll(set, xs) ==
    IF xs = <<>> THEN set ELSE SetAddAll(SetAdd(set, Head(xs)), Tail(xs))

ObjectKeys(attributes) == [i \in 1..Len(attributes) |-> attributes[i].k]

\* The loop over the keys of forward(...keys), from key i on.
RECURSIVE ExpandKeys(_, _, _, _)
ExpandKeys(keys, attributes, expanded_keys, i) ==
    IF i > Len(keys) THEN expanded_keys
    ELSE ExpandKeys(keys, attributes,
            CASE keys[i].op = "*" -> SetAddAll(expanded_keys, ObjectKeys(attributes))
              [] keys[i].op = "!" -> SetDelete(expanded_keys, keys[i].key)
              [] OTHER -> SetAdd(expanded_keys, keys[i].key),
            i + 1)

\* forward(...keys) of index.ts: the list of the key=value items its result
\* joins with spaces.
forward(keys, attributes) ==
    LET expanded_keys == IF Len(keys) > 0
                         THEN ExpandKeys(keys, attributes, <<>>, 1)
                         ELSE ObjectKeys(attributes)
        present == SelectSeq(expanded_keys, LAMBDA k : HasAttr(attributes, k))
    IN  [i \in 1..Len(present) |-> At(present[i], AttrVal(attributes, present[i]))]

\* The attributes the HTML parser reads from the text key=value: the value is
\* written without quotes, so it ends at the first space and every further
\* token is an attribute of its own, without a value.  (The usages of the
\* model carry no empty values.)
ParseItem(a) ==
    << At(a.k, << a.v[1] >>) >> \o [i \in 1..(Len(a.v) - 1) |-> At(a.v[i + 1], <<"">>)]

\* A start tag's attributes as the parser keeps them: of two attributes with
\* one name the first.
RECURSIVE FirstWins(_, _)
FirstWins(attrs, kept) ==
    IF attrs = <<>> THEN kept
    ELSE FirstWins(Tail(attrs),
                   IF HasAttr(kept, Head(attrs).k) THEN kept ELSE Append(kept, Head(attrs)))

RenderAttrs(attrs, attributes) ==
    FirstWins(Flatten([i \in 1..Len(attrs) |->
                  IF attrs[i].k = ForwardKey
                  THEN Flatten([j \in 1..Len(forward(attrs[i].v, attributes)) |->
                                   ParseItem(forward(attrs[i].v, attributes)[j])])
                  ELSE << attrs[i] >>]), <<>>)

\* Whether renderString throws: the body calls a name that the context does
\* not define (part_001 passes no forward to the template).
RECURSIVE CallsUndefined(_, _)
CallsUndefined(d, nodes) ==
    \E i \in 1..Len(nodes) :
        \/ nodes[i].t = "call"
        \/ /\ nodes[i].t = "el"
           /\ \/ d = "part1" /\ HasAttr(nodes[i].attrs, ForwardKey)
              \/ CallsUndefined(d, nodes[i].kids)

render_throws(d, tpl) == CallsUndefined(d, tpl.body)

\* renderString(body, {...attributes, content}): the body with {{ content }}
\* replaced by the usage's inner HTML, {{ name }} by the attribute's value and
\* {{ forward(keys) }} by its key=value items.
RECURSIVE RenderSeq(_, _, _)
RenderNode(n, attributes, content) ==
    CASE n.t = "content" -> content
      [] n.t = "var" ->
            IF HasAttr(attributes, n.name) /\ AttrVal(attributes, n.name) # <<"">>
            THEN << Text(AttrVal(attributes, n.name)) >>
            ELSE <<>>
      [] n.t = "text" -> << n >>
      [] n.t = "call" -> <<>>
      [] OTHER -> << [n EXCEPT !.attrs = RenderAttrs(n.attrs, attributes),
                               !.kids = RenderSeq(n.kids, attributes, content)] >>

RenderSeq(ns, attributes, content) ==
    Flatten([i \in 1..Len(ns) |-> RenderNode(ns[i], attributes, content)])

\* Variant of render whose output is empty.
render_empty(tpl, attributes, content) == <<>>

render(tpl, attributes, content) == RenderSeq(tpl.body, attributes, content)

-----------------------------------------------------------------------------
(* Attribute forwarding (part_001) *)

\* root().children(): the positions of the element nodes of a fragment.
ElementIndices(frag) == {i \in 1..Len(frag) : frag[i].t = "el"}

FirstElement(frag) ==
    CHOOSE i \in ElementIndices(frag) : \A j \in ElementIndices(frag) : i <= j

\* Variant of NotForwarded without the whitelist.
NotForwarded_no_whitelist(reg, name, attr) == FALSE

\* Whether the loop body skips attr for a root of this name (the `continue`).
NotForwarded(reg, name, attr) ==
    /\ name \notin Keys(reg)
    /\ attr \notin ((IF HasElementEntry(name) THEN htmlElementAttributes(name) ELSE {})
                      \cup htmlElementAttributes("*"))

\* value.split(" ").concat(top_element.attribs["class"]).join(" "), where an
\* undefined operand joins as the empty string.
ConcatClassOf(value, attribs) ==
    value \o (IF HasAttr(attribs, "class") THEN AttrVal(attribs, "class") ELSE <<"">>)

\* Variant of MergedValue that puts the root's class tokens first.
MergedValue_root_first(attr, value, attribs) ==
    IF attr = "class" /\ HasAttr(attribs, "class") THEN AttrVal(attribs, "class") \o value
    ELSE IF attr = "id" /\ HasAttr(attribs, "id") THEN ConcatClassOf(value, attribs)
    ELSE value

\* The value the loop body assigns for (attr, value), given the root's attribs.
MergedValue(attr, value, attribs) ==
    IF attr = "class" /\ HasAttr(attribs, "class") THEN ConcatClassOf(value, attribs)
    ELSE IF attr = "id" /\ HasAttr(attribs, "id") THEN ConcatClassOf(value, attribs)
    ELSE value

\* The for loop over Object.entries(attributes), from entry i on.
RECURSIVE ForwardLoop(_, _, _, _, _)
ForwardLoop(reg, name, attribs, attributes, i) ==
    IF i > Len(attributes) THEN attribs
    ELSE LET a == attributes[i]
         IN  IF NotForwarded(reg, name, a.k)
             THEN ForwardLoop(reg, name, attribs, attributes, i + 1)
             ELSE ForwardLoop(reg, name,
                              SetAttr(attribs, a.k, MergedValue(a.k, a.v, attribs)),
                              attributes, i + 1)

\* forward_html_attributes(html_content, attributes): [html, err].
forward_html_attributes(reg, html, attributes) ==
    IF Cardinality(ElementIndices(html)) > 1
    THEN [html |-> html, err |-> "MultipleRoots"]
    ELSE IF ElementIndices(html) = {}
    THEN \* top_element is undefined: the first loop iteration reads its name
         IF attributes = <<>> THEN [html |-> html, err |-> "none"]
         ELSE [html |-> html, err |-> "TypeError"]
    ELSE LET r == FirstElement(html)
             top == html[r]
         IN  [html |-> [html EXCEPT ![r].attrs =
                            ForwardLoop(reg, top.name, top.attrs, attributes, 1)],
              err |-> "none"]

-----------------------------------------------------------------------------
(* One pass: this.transform(html_content, processed_tags) *)

\* $(tag): the elements named tag, in document order, each with whether it is
\* still attached to the document when .each reaches it (an element below
\* another match has been detached with it by replaceWith).
RECURSIVE Select(_, _, _)
Select(nodes, tag, attached) ==
    Flatten([i \in 1..Len(nodes) |->
        IF nodes[i].t # "el" THEN <<>>
        ELSE IF nodes[i].name = tag
        THEN << [node |-> nodes[i], attached |-> attached] >>
                \o Select(nodes[i].kids, tag, FALSE)
        ELSE Select(nodes[i].kids, tag, attached)])

\* The body of the .each callback for one element: render, then (part_001)
\* forward the attributes.
Expand(d, reg, tag, tpl, m) ==
    LET attributes == m.node.attrs
        thrown == render_throws(d, tpl)
        rendered == IF thrown THEN <<>> ELSE render(tpl, attributes, m.node.kids)
        fwd == IF thrown THEN [html |-> <<>>, err |-> "RenderError"]
               ELSE IF d = "part1"
               THEN forward_html_attributes(reg, rendered, attributes)
               ELSE [html |-> rendered, err |-> "none"]
    IN  [tag |-> tag, attributes |-> attributes, content |-> m.node.kids,
         rendered |-> rendered, out |-> fwd.html, err |-> fwd.err,
         forwarded |-> (d = "part1"), attached |-> m.attached]

\* $el.replaceWith(expansion) for every attached match.
RECURSIVE ReplaceAll(_, _, _, _, _)
ReplaceAll(d, reg, tag, tpl, nodes) ==
    Flatten([i \in 1..Len(nodes) |->
        IF nodes[i].t # "el" THEN << nodes[i] >>
        ELSE IF nodes[i].name = tag
        THEN Expand(d, reg, tag, tpl, [node |-> nodes[i], attached |-> TRUE]).out
        ELSE << [nodes[i] EXCEPT !.kids = ReplaceAll(d, reg, tag, tpl, nodes[i].kids)] >>])

\* Variant of CompilesSheet without the has_tag test.
CompilesSheet_no_has_tag(d, tpl, tag, has_tag, processed) ==
    /\ d = "part1" => tpl.stylesheet # NoSheet
    /\ tag \notin processed

\* Variant of CompilesSheet without the processed_tags test.
CompilesSheet_no_dedup(d, tpl, tag, has_tag, processed) ==
    /\ d = "part1" => tpl.stylesheet # NoSheet
    /\ has_tag

\* Whether the tag's stylesheet is compiled after its matches were expanded.
CompilesSheet(d, tpl, tag, has_tag, processed) ==
    /\ d = "part1" => tpl.stylesheet # NoSheet
    /\ has_tag
    /\ tag \notin processed

SheetOf(d, tpl) == IF d = "part1" THEN tpl.stylesheet ELSE stylesheet(tpl)

\* Variant of FirstError in which no exception leaves the callback.
FirstError_swallowed(es) == 0

FirstError(es) ==
    IF \E j \in 1..Len(es) : es[j].err # "none"
    THEN CHOOSE j \in 1..Len(es) :
            es[j].err # "none" /\ \A k \in 1..(j - 1) : es[k].err = "none"
    ELSE 0

\* Variant of AppendCss that puts the new text first.
AppendCss_prepending(css, text) == text \o css

\* template_css += text.
AppendCss(css, text) == css \o text

\* The for loop over Object.entries(this.templates), from entry i on.  log is
\* the expansions made so far in the pass, pre the preprocessor calls.
RECURSIVE TransformFrom(_, _, _, _, _, _, _, _, _)
TransformFrom(d, reg, i, body, css, processed, did, log, pre) ==
    IF i > Len(reg)
    THEN [body |-> body, css |-> css, processed |-> processed,
          transformed |-> did, calls |-> log, compiled |-> pre, err |-> "none"]
    ELSE LET tag == reg[i].key
             tpl == reg[i].tpl
             ms == Select(body, tag, TRUE)
             es == [j \in 1..Len(ms) |-> Expand(d, reg, tag, tpl, ms[j])]
             bad == FirstError(es)
             has_tag == ms # <<>>
             sheet == CompilesSheet(d, tpl, tag, has_tag, processed)
             call == [tag |-> tag, path |-> SheetOf(d, tpl)]
         IN  IF bad # 0
             THEN [body |-> body, css |-> css, processed |-> processed,
                   transformed |-> TRUE, calls |-> log \o SubSeq(es, 1, bad),
                   compiled |-> pre, err |-> es[bad].err]
             ELSE IF sheet /\ preprocessor_throws(call.path)
             THEN [body |-> ReplaceAll(d, reg, tag, tpl, body), css |-> css,
                   processed |-> processed, transformed |-> TRUE,
                   calls |-> log \o es, compiled |-> Append(pre, call),
                   err |-> "PreprocessorError"]
             ELSE TransformFrom(d, reg, i + 1,
                     ReplaceAll(d, reg, tag, tpl, body),
                     IF sheet THEN AppendCss(css, styleSheetPreprocessor(call.path)) ELSE css,
                     IF sheet THEN processed \cup {tag} ELSE processed,
                     did \/ has_tag,
                     log \o es,
                     IF sheet THEN Append(pre, call) ELSE pre)

\* Variant of transform that reports no rewrite.
transform_never_transformed(d, reg, html, processed) ==
    [TransformFrom(d, reg, 1, html.body, <<>>, processed, FALSE, <<>>, <<>>)
        EXCEPT !.transformed = FALSE]

\* Variant of transform that reports a rewrite on every pass.
transform_always_transformed(d, reg, html, processed) ==
    [TransformFrom(d, reg, 1, html.body, <<>>, processed, FALSE, <<>>, <<>>)
        EXCEPT !.transformed = TRUE]

transform(d, reg, html, processed) ==
    TransformFrom(d, reg, 1, html.body, <<>>, processed, FALSE, <<>>, <<>>)

-----------------------------------------------------------------------------
(* Finalization: the style element of head *)

\* Variant of inject_css that replaces the text of an existing style element.
inject_css_replacing(html, css) ==
    IF Len(html.head) = 0
    THEN [dom |-> [html EXCEPT !.head = << css >>],
          defined |-> FALSE]
    ELSE [dom |-> [html EXCEPT !.head[1] = css],
          defined |-> TRUE]

\* [dom, defined]: the tree after the injection, and whether the function
\* returns its serialization (a bare `return;` hands back undefined).  The
\* text of an existing element is never null, so the "" branch is not taken.
inject_css(html, css) ==
    IF Len(html.head) = 0
    THEN [dom |-> [html EXCEPT !.head = << css >>],
          defined |-> FALSE]
    ELSE [dom |-> [html EXCEPT !.head[1] = html.head[1] \o css],
          defined |-> TRUE]

-----------------------------------------------------------------------------
(* Documents handed to the transform callback *)

NoDoc == [head |-> <<>>, body |-> <<>>]

\* head's style children: none, one empty, two.
Heads == { <<>>, << <<>> >>, << <<"a{}">>, <<"b{}">> >> }

UsageAttributes ==
    { <<>>,
      << At("class", <<"primary">>), At("id", <<"submit">>), At("href", <<"/hello">>),
         At("apple", <<"pear">>), At("title", <<"Hi">>) >>,
      << At("id", <<"submit">>), At("class", <<"x", "y">>) >> }

Leaf(tag) == El(tag, <<>>, <<>>)

\* Inner HTML of a usage: nothing, text, or a usage.
Contents(names) ==
    { <<>>, << Text(<<"World">>) >> } \cup { << Leaf(n) >> : n \in names }

\* Two usages side by side.
Pairs(names) == { << Leaf(n), Leaf(m) >> : n \in names, m \in names }

Bodies(names) ==
    { << El(n, a, << Text(<<"World">>) >>) >> : n \in names, a \in UsageAttributes }
    \cup { << El(n, <<>>, c) >> : n \in names \cup {"div"}, c \in Contents(names) }
    \cup Pairs(names)

\* Every body under a head without style element; the side-by-side usages
\* under every head.
Docs(reg) ==
    { [head |-> <<>>, body |-> b] : b \in Bodies(Keys(reg)) }
    \cup { [head |-> h, body |-> b] : h \in Heads, b \in Pairs(Keys(reg)) }

-----------------------------------------------------------------------------
(* State machine *)

NoResult == [kind |-> "none", doc |-> NoDoc]
NoFile == Tpl(<<"<none>">>, NoTag, NoSheet, <<>>)
NoCall == [file |-> NoFile, before |-> <<>>, err |-> "none"]

Init ==
    /\ draft \in Drafts
    /\ templates = <<>>
    /\ reg_call = NoCall
    /\ pc = "build"
    /\ input = NoDoc
    /\ html_content = NoDoc
    /\ processed_tags = {}
    /\ template_css = <<>>
    /\ passes = 0
    /\ calls = <<>>
    /\ matched = <<>>
    /\ pass_tags = <<>>
    /\ history = <<>>
    /\ compiled = <<>>
    /\ dom = NoDoc
    /\ result = NoResult
    /\ err = "none"

\* part_001: add_template(template_content, file_stem), as
\* process_template_directory calls it for a file; the directory lists a
\* file once.
AddTemplate(tpl) ==
    /\ pc = "build"
    /\ draft = "part1"
    /\ Len(templates) < MaxTemplates
    /\ \A i \in 1..Len(templates) : templates[i].tpl # tpl
    /\ LET r == add_template(templates, tpl, file_stem(tpl.filename))
       IN  /\ templates' = r.reg
           /\ reg_call' = [file |-> tpl, before |-> templates, err |-> r.err]
    /\ UNCHANGED <<draft, pc, input, html_content, processed_tags, template_css,
                   passes, calls, matched, pass_tags, history, compiled,
                   dom, result, err>>

\* index.ts: one file of process_template_directory; the directory lists a
\* file once.
RegisterFile(tpl) ==
    /\ pc = "build"
    /\ draft = "index"
    /\ Len(templates) < MaxTemplates
    /\ \A i \in 1..Len(templates) : templates[i].tpl # tpl
    /\ LET r == register_file(templates, tpl)
       IN  /\ templates' = r.reg
           /\ reg_call' = [file |-> tpl, before |-> templates, err |-> r.err]
    /\ UNCHANGED <<draft, pc, input, html_content, processed_tags, template_css,
                   passes, calls, matched, pass_tags, history, compiled,
                   dom, result, err>>

\* The transform callback is entered with an output that is not .html:
\* the content is returned as it is.
PassThrough(doc) ==
    /\ pc = "build"
    /\ pc' = "skipped"
    /\ input' = doc
    /\ result' = [kind |-> "html", doc |-> doc]
    /\ reg_call' = NoCall
    /\ UNCHANGED <<draft, templates, html_content, processed_tags, template_css,
                   passes, calls, matched, pass_tags, history, compiled, dom, err>>

\* The transform callback enters recursive_transform /
\* recursive_template_transform with the document.
Enter(doc) ==
    /\ pc = "build"
    /\ pc' = "loop"
    /\ input' = doc
    /\ html_content' = doc
    /\ processed_tags' = {}
    /\ template_css' = <<>>
    /\ reg_call' = NoCall
    /\ UNCHANGED <<draft, templates, passes, calls, matched, pass_tags, history,
                   compiled, dom, result, err>>

\* One iteration of the while (true) loop.
Pass ==
    /\ pc = "loop"
    /\ passes < MaxPasses
    /\ \E r \in {transform(draft, templates, html_content, processed_tags)} :
           /\ passes' = passes + 1
           /\ calls' = r.calls
           /\ history' = history \o r.calls
           /\ compiled' = compiled \o r.compiled
           /\ IF r.err # "none"
              THEN /\ pc' = "error"
                   /\ err' = r.err
                   /\ UNCHANGED <<html_content, processed_tags, template_css,
                                  matched, pass_tags>>
              ELSE /\ pc' = IF r.transformed THEN "loop" ELSE "final"
                   /\ html_content' = [html_content EXCEPT !.body = r.body]
                   /\ processed_tags' = r.processed
                   /\ template_css' = AppendCss(template_css, r.css)
                   /\ matched' = matched \o [j \in 1..Len(r.calls) |-> r.calls[j].tag]
                   /\ pass_tags' = Append(pass_tags,
                                          {r.calls[j].tag : j \in 1..Len(r.calls)})
                   /\ err' = err
    /\ UNCHANGED <<draft, templates, reg_call, input, dom, result>>

\* After the loop: inject the CSS and return.
Finalize ==
    /\ pc = "final"
    /\ LET f == inject_css(html_content, template_css)
       IN  /\ dom' = f.dom
           /\ result' = IF f.defined THEN [kind |-> "html", doc |-> f.dom]
                        ELSE [kind |-> "undefined", doc |-> NoDoc]
    /\ pc' = "done"
    /\ UNCHANGED <<draft, templates, reg_call, input, html_content, processed_tags,
                   template_css, passes, calls, matched, pass_tags, history,
                   compiled, err>>

\* The documents are enumerated only while the callback can be entered.
PassThroughSome ==
    pc = "build" /\ \E doc \in {[head |-> <<>>, body |-> b] : b \in Pairs(Keys(templates))} :
                        PassThrough(doc)
EnterSome == pc = "build" /\ \E doc \in Docs(templates) : Enter(doc)

Next ==
    \/ \E tpl \in TemplateFiles : AddTemplate(tpl)
    \/ \E tpl \in TemplateFiles : RegisterFile(tpl)
    \/ PassThroughSome
    \/ EnterSome
    \/ Pass
    \/ Finalize

Spec == Init /\ [][Next]_vars

-----------------------------------------------------------------------------
(* Template-usage graph and nesting depth *)

RECURSIVE ElementNames(_)
ElementNames(nodes) ==
    UNION { IF nodes[i].t = "el"
            THEN {nodes[i].name} \cup ElementNames(nodes[i].kids)
            ELSE {} : i \in 1..Len(nodes) }

\* The tags a template's body uses.
UsesOf(reg, k) == ElementNames(Lookup(reg, k).body) \cap Keys(reg)

RECURSIVE UsesClosure(_, _, _)
UsesClosure(reg, S, n) ==
    IF n = 0 THEN S
    ELSE UsesClosure(reg, S \cup UNION {UsesOf(reg, k) : k \in S}, n - 1)

\* No template expands, directly or through other templates, into itself.
Acyclic(reg) ==
    \A k \in Keys(reg) : k \notin UsesClosure(reg, UsesOf(reg, k), Len(reg))

SetMax(S) == IF S = {} THEN 0 ELSE CHOOSE x \in S : \A y \in S : y <= x

\* Length of the longest chain of usages, each introduced by the expansion
\* (template body or paired-tag content) of the previous one.
RECURSIVE NestingDepth(_, _)
NestingDepth(reg, nodes) ==
    SetMax({ IF nodes[i].t # "el" THEN 0
             ELSE IF nodes[i].name \in Keys(reg)
             THEN 1 + NestingDepth(reg, render(Lookup(reg, nodes[i].name),
                                                nodes[i].attrs, nodes[i].kids))
             ELSE NestingDepth(reg, nodes[i].kids) : i \in 1..Len(nodes) })

-----------------------------------------------------------------------------
(* Claims *)

\* C1: for an acyclic registry the fixpoint loop ends, and the number of
\* transform passes made for a document, the last one (which rewrites
\* nothing) included, is at most the document's nesting depth plus one:
\* the loop is never about to start a pass beyond that, and the depth plus
\* one stays within the number of passes the model follows.
C1_PassBound ==
    (pc # "build" /\ Acyclic(templates)) =>
        LET depth == NestingDepth(templates, input.body)
        IN  /\ passes <= depth + 1
            /\ pc = "loop" => passes <= depth
            /\ depth + 1 <= MaxPasses

\* C1 witness: an acyclic run that ended after exactly depth + 1 passes,
\* for a chain of usages (a template that expands into another tag).
C1_Witness ==
    /\ pc = "done"
    /\ Acyclic(templates)
    /\ NestingDepth(templates, input.body) >= 2
    /\ passes = NestingDepth(templates, input.body) + 1

Count(seq, x) == Cardinality({i \in 1..Len(seq) : seq[i] = x})

\* C2: throughout a document's run, and so at its end, the compiled
\* stylesheet of a tag that has a stylesheet occurs in the accumulated CSS
\* exactly once if the tag has matched in a completed pass, however often,
\* and not at all before; the tag is then in processed_tags.
C2_StylesheetOnce ==
    \A i \in 1..Len(templates) :
        LET tag == templates[i].key
            tpl == templates[i].tpl
            n == Count(template_css, tpl.stylesheet)
        IN  tpl.stylesheet # NoSheet =>
                /\ Count(matched, tag) >= 1 => (n = 1 /\ tag \in processed_tags)
                /\ Count(matched, tag) = 0 => n = 0

\* C2 witness: a finished run in which a tag with a stylesheet matched in
\* more than one pass and more than twice in all.
C2_Witness ==
    /\ pc = "done"
    /\ passes >= 3
    /\ \E i \in 1..Len(templates) :
          /\ templates[i].tpl.stylesheet # NoSheet
          /\ Count(matched, templates[i].key) >= 3
          /\ Count(template_css, templates[i].tpl.stylesheet) = 1

\* The root element of a fragment that has one.
HasRoot(frag) == ElementIndices(frag) # {}
Root(frag) == frag[FirstElement(frag)]
RootCount(frag) == Cardinality(ElementIndices(frag))

\* The attribute names the whitelist admits on a root of this name.
Allowed(name) ==
    (IF HasElementEntry(name) THEN htmlElementAttributes(name) ELSE {})
        \cup htmlElementAttributes("*")

CallIndices == 1..Len(calls)

\* C3: a usage whose rendered body has two or more top-level elements makes
\* the pass fail with the multiple-roots error, and nothing is replaced:
\* the document of the loop is left as it was.
C3_MultipleRootsRejected ==
    \A j \in CallIndices :
        RootCount(calls[j].rendered) >= 2 =>
            /\ calls[j].err = "MultipleRoots"
            /\ pc = "error"
            /\ err = "MultipleRoots"

\* C4 as claimed: for an expansion whose root is not a registered tag, a
\* usage attribute outside the whitelist of the root's name reaches the
\* template body as a variable and is no attribute of the final root.
C4_NotOnRoot ==
    \A j \in CallIndices :
        LET c == calls[j]
        IN  (c.err = "none" /\ HasRoot(c.rendered)
                /\ Root(c.rendered).name \notin Keys(templates)) =>
            \A i \in 1..Len(c.attributes) :
                c.attributes[i].k \notin Allowed(Root(c.rendered).name) =>
                    ~HasAttr(Root(c.out).attrs, c.attributes[i].k)

\* Whether the template's root has {{ k }} among its children.
RootHasVar(tpl, k) ==
    /\ HasRoot(tpl.body)
    /\ \E i \in 1..Len(Root(tpl.body).kids) : Root(tpl.body).kids[i] = VarSlot(k)

\* C4 amended: such an attribute reaches the template body as a variable
\* (a {{ k }} of the root renders its value) and is not forwarded: the final
\* root has the attribute exactly if the rendered body gave it one, with the
\* rendered value.
C4_NotForwarded ==
    \A j \in CallIndices :
        LET c == calls[j]
        IN  (c.err = "none" /\ HasRoot(c.rendered)
                /\ Root(c.rendered).name \notin Keys(templates)) =>
            \A i \in 1..Len(c.attributes) :
                LET k == c.attributes[i].k
                    v == c.attributes[i].v
                IN  k \notin Allowed(Root(c.rendered).name) =>
                    /\ HasAttr(Root(c.out).attrs, k) <=> HasAttr(Root(c.rendered).attrs, k)
                    /\ HasAttr(Root(c.out).attrs, k) =>
                          AttrVal(Root(c.out).attrs, k) = AttrVal(Root(c.rendered).attrs, k)
                    /\ (RootHasVar(Lookup(templates, c.tag), k) /\ v # <<"">>) =>
                          \E n \in 1..Len(Root(c.out).kids) : Root(c.out).kids[n] = Text(v)

\* C4 witness: the forwarder ran on a root that is no registered tag, the
\* usage carried apple="pear", the body rendered it as text, and the final
\* root has no apple attribute while an allowed attribute was forwarded.
C4_Witness ==
    \E j \in CallIndices :
        LET c == calls[j]
        IN  /\ c.forwarded /\ c.err = "none" /\ HasRoot(c.rendered)
            /\ Root(c.rendered).name \notin Keys(templates)
            /\ HasAttr(c.attributes, "apple")
            /\ "apple" \notin Allowed(Root(c.rendered).name)
            /\ ~HasAttr(Root(c.out).attrs, "apple")
            /\ HasAttr(Root(c.out).attrs, "title")
            /\ \E n \in 1..Len(Root(c.out).kids) : Root(c.out).kids[n] = Text(<<"pear">>)

\* The calls in which forward_html_attributes ran to its end on a root.
ForwardedCalls ==
    {j \in CallIndices : calls[j].forwarded /\ calls[j].err = "none"
                            /\ HasRoot(calls[j].rendered)}

C6_IdMerge ==
    \A j \in ForwardedCalls :
        LET c == calls[j]
        IN  (HasAttr(c.attributes, "id") /\ HasAttr(Root(c.rendered).attrs, "id")) =>
                AttrVal(Root(c.out).attrs, "id") =
                    AttrVal(c.attributes, "id") \o AttrVal(Root(c.rendered).attrs, "id")

HasTagName(d, tpl) == d = "part1" \/ TagTemplate(tpl).err = "none"
TagNameOf(d, tpl) ==
    IF d = "part1" THEN (IF tpl.tag # NoTag THEN tpl.tag ELSE file_stem(tpl.filename))
    ELSE TagTemplate(tpl).tag_name

\* C8: a registration of a definition whose tag name is already a key of
\* the registry fails with the duplicate-tag error and leaves the registry
\* as it was.
C8_DuplicateRejected ==
    (/\ reg_call.file # NoFile
     /\ HasTagName(draft, reg_call.file)
     /\ TagNameOf(draft, reg_call.file) \in Keys(reg_call.before)) =>
        /\ reg_call.err = "DuplicateTag"
        /\ templates = reg_call.before

\* C9: when head has no style element, the finalization makes one holding
\* the accumulated CSS, and the callback hands back the serialization of
\* the tree that contains it.
C9_StyleCreatedAndReturned ==
    (pc = "done" /\ Len(input.head) = 0) =>
        /\ dom = [head |-> << template_css >>, body |-> html_content.body]
        /\ result = [kind |-> "html", doc |-> dom]

\* C10: when head has a style element, the finalization sets the text of
\* the first one to its previous text followed by the accumulated CSS,
\* creates no style element, leaves the others alone, and the callback
\* hands back the serialization of that tree.
C10_StyleAppended ==
    (pc = "done" /\ Len(input.head) >= 1) =>
        /\ Len(dom.head) = Len(input.head)
        /\ dom.head[1] = input.head[1] \o template_css
        /\ \A i \in 2..Len(input.head) : dom.head[i] = input.head[i]
        /\ dom.body = html_content.body
        /\ result = [kind |-> "html", doc |-> dom]

\* C10 witness: CSS was accumulated and appended to a style element that
\* had text, a second style element being left alone.
C10_Witness ==
    /\ pc = "done"
    /\ Len(input.head) = 2
    /\ input.head[1] # <<>>
    /\ template_css # <<>>
    /\ dom.head[1] = input.head[1] \o template_css

\* C10 holds of an empty style element too: its text becomes the CSS.
C10_WitnessEmpty ==
    /\ pc = "done"
    /\ input.head = << <<>> >>
    /\ Len(template_css) >= 2
    /\ dom.head = << template_css >>

\* The text the preprocessor returned for the calls of a log, concatenated.
CssOf(log) == Flatten([i \in 1..Len(log) |-> styleSheetPreprocessor(log[i].path)])

IsPrefix(s, t) == Len(s) <= Len(t) /\ s = SubSeq(t, 1, Len(s))

\* The tags for which the run has expanded an element, in any pass.
UsedTags == {history[j].tag : j \in 1..Len(history)}

\* C11: a registered tag that has matched no element in any pass of the
\* run has had no preprocessor call, is not in processed_tags, and the
\* accumulated CSS consists of the texts compiled for other tags only.
C11_UnusedTagNoCss ==
    \A k \in Keys(templates) \ UsedTags :
        /\ \A i \in 1..Len(compiled) : compiled[i].tag # k
        /\ k \notin processed_tags
        /\ IsPrefix(template_css, CssOf(compiled))

\* C11 witness: a finished run in which one tag with a stylesheet was used
\* and compiled while another registered tag with a stylesheet was not used.
C11_Witness ==
    /\ pc = "done"
    /\ template_css # <<>>
    /\ \E k \in Keys(templates) \ UsedTags :
          /\ Lookup(templates, k).stylesheet # NoSheet
          /\ Count(template_css, Lookup(templates, k).stylesheet) = 0

\* The file's base name with its extension stripped, for a name with one dot.
BaseName(filename) == filename[1]

\* C12: a registration of a file whose name (the front-matter tag, or
\* without one the file's base name with the extension stripped) is not yet
\* a key of the registry succeeds and binds exactly that name to the file.
C12_DefaultName ==
    LET f == reg_call.file
        name == IF f.tag # NoTag THEN f.tag ELSE BaseName(f.filename)
    IN  (f # NoFile /\ Len(f.filename) = 2 /\ name \notin Keys(reg_call.before)) =>
            /\ reg_call.err = "none"
            /\ templates = Append(reg_call.before, [key |-> name, tpl |-> f])

\* The expansions of the run whose rendered root is itself a registered tag.
TagRootCalls ==
    {j \in 1..Len(history) :
        /\ history[j].err = "none"
        /\ HasRoot(history[j].rendered)
        /\ Root(history[j].rendered).name \in Keys(templates)}

\* C13: when the root of a rendered expansion is a registered tag, every
\* usage attribute is on the final root, whitelisted or not: with the usage
\* value, and for class and id with a value that begins with the usage
\* tokens; and when the loop has ended, a later expansion of the root's tag
\* has received every one of these attributes.
C13_AllForwarded ==
    \A j \in TagRootCalls :
        LET c == history[j]
            root == Root(c.out)
        IN  /\ \A i \in 1..Len(c.attributes) :
                  LET k == c.attributes[i].k
                      v == c.attributes[i].v
                  IN  /\ HasAttr(root.attrs, k)
                      /\ IF k \in {"class", "id"}
                         THEN IsPrefix(v, AttrVal(root.attrs, k))
                         ELSE AttrVal(root.attrs, k) = v
            /\ (c.attached /\ pc \in {"final", "done"}) =>
                  \E n \in (j + 1)..Len(history) :
                      /\ history[n].tag = root.name
                      /\ history[n].attributes = root.attrs
                      /\ \A i \in 1..Len(c.attributes) :
                            HasAttr(history[n].attributes, c.attributes[i].k)

RegistryIndex(k) == CHOOSE i \in 1..Len(templates) : templates[i].key = k

\* C14: a failure of the renderer or of the preprocessor is the last thing
\* the run does.  The failing call ends the pass (no expansion and no
\* preprocessor call follows it), the exception leaves the callback (no
\* further pass, no finalization, nothing returned) and the pass is not
\* committed: the loop's document is still the one the pass started from,
\* the caller's input when it is the first.
C14_FailureAborts ==
    /\ \A j \in 1..Len(history) :
          history[j].err = "RenderError" =>
              /\ j = Len(history)
              /\ \A i \in 1..Len(compiled) :
                    RegistryIndex(compiled[i].tag) < RegistryIndex(history[j].tag)
                        \/ compiled[i].tag \in UNION {pass_tags[n] : n \in 1..Len(pass_tags)}
              /\ pc = "error" /\ err = "RenderError"
    /\ \A i \in 1..Len(compiled) :
          preprocessor_throws(compiled[i].path) =>
              /\ i = Len(compiled)
              /\ history # <<>> /\ history[Len(history)].tag = compiled[i].tag
              /\ pc = "error" /\ err = "PreprocessorError"
    /\ (pc = "error" /\ err \in {"RenderError", "PreprocessorError"}) =>
          /\ result = NoResult /\ dom = NoDoc
          /\ Len(pass_tags) = passes - 1
          /\ passes = 1 => (html_content = input /\ template_css = <<>>)
          /\ ~ENABLED Pass /\ ~ENABLED Finalize

\* C14 witness: the renderer failed in a pass that had already expanded
\* an element of an earlier tag and compiled its stylesheet.
C14_Witness ==
    /\ pc = "error" /\ err = "RenderError"
    /\ Len(calls) >= 2
    /\ calls[1].err = "none" /\ calls[1].out # <<>>
    /\ compiled # <<>>
    /\ html_content = input

\* C14 holds of the preprocessor too: its failure came after the tag's
\* elements had been replaced in the pass's tree, and nothing was committed.
C14_WitnessPreprocessor ==
    /\ pc = "error" /\ err = "PreprocessorError"
    /\ Len(calls) >= 2
    /\ html_content = input
    /\ draft = "index"

\* C15: when the loop has ended normally, no element of the document bears
\* a registered name, in the loop's document and in the finalized tree
\* alike, and the pass that ended the loop expanded nothing.
C15_NoRegisteredElementLeft ==
    pc \in {"final", "done"} =>
        /\ ElementNames(html_content.body) \cap Keys(templates) = {}
        /\ pc = "done" => ElementNames(dom.body) \cap Keys(templates) = {}
        /\ calls = <<>>
        /\ pass_tags # <<>> /\ pass_tags[Len(pass_tags)] = {}

\* C15 witness: wrap comes after card in the registry and expands into a
\* card element, which the first pass therefore left in the document; the
\* loop went on, expanded it in the second pass and ended with the third.
C15_Witness ==
    /\ pc = "done"
    /\ "card" \in Keys(templates) /\ "wrap" \in Keys(templates)
    /\ RegistryIndex("card") < RegistryIndex("wrap")
    /\ pass_tags = << {"wrap"}, {"card"}, {} >>
    /\ ElementNames(dom.body) \cap Keys(templates) = {}

\* The tags whose template expands, directly or through other templates,
\* into a usage of the same tag.
CyclicTags(reg) ==
    {k \in Keys(reg) : k \in UsesClosure(reg, UsesOf(reg, k), Len(reg))}

\* The registered names borne by elements that lie in no other usage's
\* content.
RECURSIVE TopUsages(_, _)
TopUsages(reg, nodes) ==
    UNION { IF nodes[i].t # "el" THEN {}
            ELSE IF nodes[i].name \in Keys(reg) THEN {nodes[i].name}
            ELSE TopUsages(reg, nodes[i].kids) : i \in 1..Len(nodes) }

C17_PreprocessorConditions ==
    /\ \A i \in 1..Len(compiled) :
          /\ compiled[i].tag \in UsedTags
          /\ \A n \in 1..Len(compiled) : compiled[n].tag = compiled[i].tag => n = i
          /\ Lookup(templates, compiled[i].tag).stylesheet # NoSheet
          /\ compiled[i].path = Lookup(templates, compiled[i].tag).stylesheet
    /\ \A k \in processed_tags :
          /\ k \in UsedTags
          /\ Lookup(templates, k).stylesheet # NoSheet
          /\ \E i \in 1..Len(compiled) : compiled[i].tag = k

\* C18: a usage whose rendered body has no top-level element makes the
\* pass fail with the multiple-roots error, whatever attributes the usage
\* carries, and the run ends with that error.
C18_ZeroRootsRejected ==
    \A j \in 1..Len(history) :
        (history[j].err # "RenderError" /\ RootCount(history[j].rendered) = 0) =>
            /\ history[j].err = "MultipleRoots"
            /\ pc = "error"
            /\ err = "MultipleRoots"

\* The keys of the registry in its iteration order.
KeySeq == [i \in 1..Len(templates) |-> templates[i].key]

\* Whether a used tag has its stylesheet compiled at all: in part_001 if the
\* definition names one, in index.ts always.
HasCompiledSheet(k) == draft = "index" \/ Lookup(templates, k).stylesheet # NoSheet

\* The compiled stylesheets of the tags first matched in pass n, n + 1, ...
\* (seen: the tags matched before pass n): pass after pass, and the tags of
\* one pass in registry order.
RECURSIVE CssFromPass(_, _)
CssFromPass(n, seen) ==
    IF n > Len(pass_tags) THEN <<>>
    ELSE LET new == SelectSeq(KeySeq,
                        LAMBDA k : k \in pass_tags[n] \ seen /\ HasCompiledSheet(k))
         IN  Flatten([i \in 1..Len(new) |->
                        styleSheetPreprocessor(SheetOf(draft, Lookup(templates, new[i])))])
                \o CssFromPass(n + 1, seen \cup pass_tags[n])

\* C19: the accumulated CSS is the concatenation of the compiled
\* stylesheets in the order in which their tags first matched: the tags of
\* an earlier pass before those of a later one, the tags of one pass in
\* registry order; it is a function of the sets of tags matched per pass,
\* not of where or how often they occur in the document.
C19_CssOrder == template_css = CssFromPass(1, {})

\* C19 witness: wrap precedes card in the document and card precedes wrap
\* in the registry; both matched in the first pass and the CSS has card's
\* stylesheet first.
C19_Witness ==
    /\ pc = "done"
    /\ input.body = << Leaf("wrap"), Leaf("card") >>
    /\ KeySeq = <<"card", "wrap">>
    /\ pass_tags[1] = {"card", "wrap"}
    /\ template_css = <<"card.css", "wrap.css">>

\* C19 orders by pass before registry position: card precedes wrap in the
\* registry but first matched in the second pass, after wrap.
C19_WitnessPasses ==
    /\ pc = "done"
    /\ KeySeq = <<"card", "wrap">>
    /\ pass_tags = << {"wrap"}, {"card"}, {} >>
    /\ template_css = <<"wrap.css", "card.css">>

\* C20: when a registration of the build has failed with the duplicate-tag
\* error, the registry holds none of the files registered earlier in the
\* build: it is the empty registry the build started from.
C20_BuildAllOrNothing ==
    reg_call.err = "DuplicateTag" => templates = <<>>

====
